---- MODULE Spec2Model ----
(***************************************************************************)
(* Model of SDG_LLM/text_extarcters.py: PromptGenerator and                *)
(* DocumentAnalyzer (extract_eval_data, extract_json_from_text,            *)
(* extract_csv_from_text).                                                 *)
(*                                                                         *)
(* A Python str is a sequence of one-character strings (the backtick is    *)
(* the string "BACKTICK").  A Python value is                              *)
(* a record [t |-> type name, v |-> payload sequence]:                     *)
(*   None  [t |-> "None",  v |-> <<>>]                                     *)
(*   bool  [t |-> "bool",  v |-> the literal's characters]                 *)
(*   int   [t |-> "int",   v |-> the decimal digits, "-" first if negative]*)
(*   float [t |-> "float", v |-> the characters of the literal]            *)
(*   str   [t |-> "str",   v |-> the characters]                           *)
(*   list  [t |-> "list",  v |-> the items]                                *)
(*   dict  [t |-> "dict",  v |-> entries [key |-> k, val |-> x] in         *)
(*                               insertion order, keys distinct]           *)
(***************************************************************************)
EXTENDS Integers, Sequences, FiniteSets, TLC

----------------------------------------------------------------------------
(* Python values *)

PyNone == [t |-> "None", v |-> <<>>]

PyStr(s) == [t |-> "str", v |-> s]

PyList(items) == [t |-> "list", v |-> items]

PyDict(entries) == [t |-> "dict", v |-> entries]

(* d[k] = x on a dict held as its entry sequence: an existing key keeps its
   position and takes the new value, a new key goes last. *)
DictSet(entries, k, x) ==
    IF \E j \in 1..Len(entries) : entries[j].key = k
    THEN [j \in 1..Len(entries) |->
             IF entries[j].key = k THEN [key |-> k, val |-> x] ELSE entries[j]]
    ELSE Append(entries, [key |-> k, val |-> x])

----------------------------------------------------------------------------
(* Characters *)

(* the backtick character; a string literal cannot hold it, so it is named *)
BT == "BACKTICK"

Fence == <<BT, BT, BT>>

(* the characters str.strip() removes, among those the model uses *)
StripChars == {" ", "\n", "\r", "\t"}

(* the characters the WHITESPACE regex of json skips *)
JsonWs == {" ", "\n", "\r", "\t"}

Digits == {"0", "1", "2", "3", "4", "5", "6", "7", "8", "9"}

(* least element of a non-empty set of integers *)
MinOf(S) == CHOOSE x \in S : \A y \in S : x <= y

MaxOf(S) == CHOOSE x \in S : \A y \in S : x >= y

(* text[from..] starts with lit *)
StartsAt(text, from, lit) ==
    /\ from >= 1
    /\ from + Len(lit) - 1 <= Len(text)
    /\ \A k \in 1..Len(lit) : text[from + k - 1] = lit[k]

----------------------------------------------------------------------------
(* re.search(pattern, input_text, re.DOTALL), the pattern being three
   backticks, a lazy group (.*?), three backticks *)

(* the positions where the closing marker can match once the opening marker
   has matched at s: the lazy (.*?) takes the least of them *)
MatchEnds(text, s) == {e \in (s + 3)..(Len(text) - 2) : StartsAt(text, e, Fence)}

(* mutant of LazyEnd: a greedy group runs to the last closing marker *)
GreedyEnd(text, s) == MaxOf(MatchEnds(text, s))

(* the start positions at which the whole pattern matches; search takes the
   least *)
MatchStarts(text) ==
    {s \in 1..(Len(text) - 5) : StartsAt(text, s, Fence) /\ MatchEnds(text, s) # {}}

LazyEnd(text, s) == MinOf(MatchEnds(text, s))

re_search(text) ==
    IF MatchStarts(text) = {}
    THEN [matched |-> FALSE, group1 |-> <<>>]
    ELSE LET s == MinOf(MatchStarts(text))
             e == LazyEnd(text, s)
         IN [matched |-> TRUE, group1 |-> SubSeq(text, s + 3, e - 1)]

(* str.strip() *)
strip(s) ==
    LET keep == {i \in 1..Len(s) : s[i] \notin StripChars}
    IN IF keep = {} THEN <<>>
       ELSE LET first == CHOOSE i \in keep : \A j \in 1..(i - 1) : s[j] \in StripChars
                last == CHOOSE i \in keep : \A j \in (i + 1)..Len(s) : s[j] \in StripChars
            IN SubSeq(s, first, last)

----------------------------------------------------------------------------
(* json.loads(json_str), as called at line 110.

   The outcome is [st, val, pos]: st = "ok" with the decoded value and the
   position after it, st = "JSONDecodeError" for a syntax error, and
   st = "ValueError" when int() refuses a literal of more than
   INT_MAX_STR_DIGITS digits (that error is a plain ValueError, not a
   JSONDecodeError).  Modelled alphabet: whitespace, digits, the punctuation
   of JSON, letters, the backtick; string escapes (backslash) and the
   interpreter recursion limit are outside it. *)

(* sys.int_info.default_max_str_digits *)
INT_MAX_STR_DIGITS == 4300

Ok(val, pos) == [st |-> "ok", val |-> val, pos |-> pos]

DecodeError == [st |-> "JSONDecodeError", val |-> PyNone, pos |-> 0]

IntTooLong == [st |-> "ValueError", val |-> PyNone, pos |-> 0]

(* the first position >= i that holds no character of cls (Len(s)+1 when the
   run reaches the end) *)
RunEnd(s, i, cls) ==
    LET stops == {j \in i..Len(s) : s[j] \notin cls}
    IN IF stops = {} THEN Len(s) + 1 ELSE MinOf(stops)

SkipWs(s, i) == RunEnd(s, i, JsonWs)

IsDigitAt(s, i) == i >= 1 /\ i <= Len(s) /\ s[i] \in Digits

(* _match_number: an optional minus, then 0 or a digit run that does not
   start with 0, then an optional fraction and an optional exponent, each
   taken only when it has a digit *)
match_number(s, i) ==
    LET d0 == IF s[i] = "-" THEN i + 1 ELSE i
    IN IF ~IsDigitAt(s, d0) THEN DecodeError
       ELSE LET intEnd == IF s[d0] = "0" THEN d0 + 1 ELSE RunEnd(s, d0, Digits)
                hasFrac == /\ intEnd <= Len(s)
                           /\ s[intEnd] = "."
                           /\ IsDigitAt(s, intEnd + 1)
                fracEnd == IF hasFrac THEN RunEnd(s, intEnd + 1, Digits) ELSE intEnd
                expSign == IF /\ fracEnd + 1 <= Len(s)
                              /\ s[fracEnd + 1] \in {"+", "-"}
                           THEN fracEnd + 2 ELSE fracEnd + 1
                hasExp == /\ fracEnd < Len(s)
                          /\ s[fracEnd] \in {"e", "E"}
                          /\ IsDigitAt(s, expSign)
                numEnd == IF hasExp THEN RunEnd(s, expSign, Digits) ELSE fracEnd
                ndigits == intEnd - d0
                lit == SubSeq(s, i, numEnd - 1)
            IN IF hasFrac \/ hasExp THEN Ok([t |-> "float", v |-> lit], numEnd)
               ELSE IF ndigits > INT_MAX_STR_DIGITS THEN IntTooLong
               ELSE IF lit = <<"-", "0">> THEN Ok([t |-> "int", v |-> <<"0">>], numEnd)
               ELSE Ok([t |-> "int", v |-> lit], numEnd)

(* scanstring from the character after the opening quote, strict: the string
   runs to the next quote and holds no control character *)
scanstring(s, i) ==
    LET quotes == {j \in i..Len(s) : s[j] = "\""}
    IN IF quotes = {} THEN DecodeError
       ELSE LET q == MinOf(quotes)
            IN IF \E j \in i..(q - 1) : s[j] \in {"\n", "\r", "\t"}
               THEN DecodeError
               ELSE Ok(PyStr(SubSeq(s, i, q - 1)), q + 1)

Literals == <<
    [lit |-> <<"n", "u", "l", "l">>, val |-> PyNone],
    [lit |-> <<"t", "r", "u", "e">>, val |-> [t |-> "bool", v |-> <<"t", "r", "u", "e">>]],
    [lit |-> <<"f", "a", "l", "s", "e">>, val |-> [t |-> "bool", v |-> <<"f", "a", "l", "s", "e">>]],
    [lit |-> <<"N", "a", "N">>, val |-> [t |-> "float", v |-> <<"N", "a", "N">>]],
    [lit |-> <<"I", "n", "f", "i", "n", "i", "t", "y">>,
     val |-> [t |-> "float", v |-> <<"I", "n", "f", "i", "n", "i", "t", "y">>]],
    [lit |-> <<"-", "I", "n", "f", "i", "n", "i", "t", "y">>,
     val |-> [t |-> "float", v |-> <<"-", "I", "n", "f", "i", "n", "i", "t", "y">>]] >>

RECURSIVE scan_once(_, _), parse_array(_, _, _), parse_object(_, _, _)

(* _parse_array after an item and the whitespace behind it: j is at the
   closing bracket or at the comma before the next item *)
ArrayAfterItem(s, j, items) ==
    IF j > Len(s) THEN DecodeError
    ELSE IF s[j] = "]" THEN Ok(PyList(items), j + 1)
    ELSE IF s[j] = "," THEN parse_array(s, SkipWs(s, j + 1), items)
    ELSE DecodeError

ArrayItem(s, item, acc) ==
    IF item.st # "ok" THEN item
    ELSE ArrayAfterItem(s, SkipWs(s, item.pos), Append(acc, item.val))

(* _parse_array from the first item at i, acc the items read so far *)
parse_array(s, i, acc) == ArrayItem(s, scan_once(s, i), acc)

(* _parse_object after a value and the whitespace behind it: j is at the
   closing brace or at the comma before the next key *)
ObjectAfterItem(s, j, entries) ==
    IF j > Len(s) THEN DecodeError
    ELSE IF s[j] = "}" THEN Ok(PyDict(entries), j + 1)
    ELSE IF s[j] = "," THEN parse_object(s, SkipWs(s, j + 1), entries)
    ELSE DecodeError

ObjectItem(s, key, item, acc) ==
    IF item.st # "ok" THEN item
    ELSE ObjectAfterItem(s, SkipWs(s, item.pos), DictSet(acc, key.val, item.val))

(* after the key and the whitespace behind it: c is at the colon *)
ObjectColon(s, key, c, acc) ==
    IF c > Len(s) \/ s[c] # ":" THEN DecodeError
    ELSE ObjectItem(s, key, scan_once(s, SkipWs(s, c + 1)), acc)

ObjectKey(s, key, acc) ==
    IF key.st # "ok" THEN key
    ELSE ObjectColon(s, key, SkipWs(s, key.pos), acc)

(* _parse_object from the first key at i, acc the entries read so far *)
parse_object(s, i, acc) ==
    IF i > Len(s) \/ s[i] # "\"" THEN DecodeError
    ELSE ObjectKey(s, scanstring(s, i + 1), acc)

OpenObject(s, j) ==
    IF j <= Len(s) /\ s[j] = "}" THEN Ok(PyDict(<<>>), j + 1)
    ELSE parse_object(s, j, <<>>)

OpenArray(s, j) ==
    IF j <= Len(s) /\ s[j] = "]" THEN Ok(PyList(<<>>), j + 1)
    ELSE parse_array(s, j, <<>>)

LiteralAt(s, i) == {k \in 1..Len(Literals) : StartsAt(s, i, Literals[k].lit)}

TakeLiteral(i, k) == Ok(Literals[k].val, i + Len(Literals[k].lit))

(* scan_once(s, idx): the value that starts at position i *)
scan_once(s, i) ==
    IF i > Len(s) THEN DecodeError
    ELSE IF s[i] = "\"" THEN scanstring(s, i + 1)
    ELSE IF s[i] = "{" THEN OpenObject(s, SkipWs(s, i + 1))
    ELSE IF s[i] = "[" THEN OpenArray(s, SkipWs(s, i + 1))
    ELSE IF LiteralAt(s, i) # {} THEN TakeLiteral(i, CHOOSE k \in LiteralAt(s, i) : TRUE)
    ELSE match_number(s, i)

(* JSONDecoder.decode: one value, whitespace around it, nothing after *)
DecodeEnd(s, r) ==
    IF r.st # "ok" THEN r
    ELSE IF SkipWs(s, r.pos) # Len(s) + 1 THEN DecodeError
    ELSE r

json_loads(s) == DecodeEnd(s, scan_once(s, SkipWs(s, 1)))

----------------------------------------------------------------------------
(* DocumentAnalyzer.extract_json_from_text.  The outcome is
   [raised, val]: the value returned, or the exception that escapes. *)

Returns(val) == [raised |-> "", val |-> val]

Raises(exc) == [raised |-> exc, val |-> PyNone]

(* lines 109-113: the try around json.loads catches JSONDecodeError only *)
TryJsonLoads(r) ==
    IF r.st = "ok" THEN Returns(r.val)
    ELSE IF r.st = "JSONDecodeError" THEN Returns(PyNone)
    ELSE Raises(r.st)

(* lines 107-116 *)
JsonOfMatch(match) ==
    IF match.matched
    THEN TryJsonLoads(json_loads(strip(match.group1)))
    ELSE Returns(PyNone)

extract_json_from_text(input_text) == JsonOfMatch(re_search(input_text))

----------------------------------------------------------------------------
(* csv.DictReader(io.StringIO(csv_str)) with the default (excel) dialect:
   delimiter comma, quotechar double quote, doublequote, not strict. *)

(* io.StringIO line iteration: the lines of s from position i, each with its
   terminating newline when it has one *)
RECURSIVE readlines(_, _)
readlines(s, i) ==
    IF i > Len(s) THEN <<>>
    ELSE LET newlines == {j \in i..Len(s) : s[j] = "\n"}
             stop == IF newlines = {} THEN Len(s) ELSE MinOf(newlines)
         IN <<SubSeq(s, i, stop)>> \o readlines(s, stop + 1)

(* the end-of-line mark the reader feeds itself after the characters of a line *)
EOL == "EOL"

LineEnds == {"\n", "\r", EOL}

(* parse_save_field *)
save_field(ps) == [ps EXCEPT !.fields = Append(@, ps.field), !.field = <<>>]

(* csv.field_size_limit(): the default limit on the characters of one field *)
FIELD_SIZE_LIMIT == 131072

(* parse_add_char for each character of run in turn: a character that would
   make the field longer than the limit is refused with csv.Error, the
   characters before it stay in the field *)
add_run(ps, run) ==
    IF Len(ps.field) + Len(run) > FIELD_SIZE_LIMIT
    THEN [ps EXCEPT !.field = @ \o SubSeq(run, 1, FIELD_SIZE_LIMIT - Len(ps.field)),
                    !.error = TRUE]
    ELSE [ps EXCEPT !.field = @ \o run]

(* parse_add_char *)
add_char(ps, c) == add_run(ps, <<c>>)

(* parse_add_char, then the state change that follows it when the character
   was accepted *)
add_char_then(ps, c, state) ==
    IF Len(ps.field) >= FIELD_SIZE_LIMIT THEN add_char(ps, c)
    ELSE [add_char(ps, c) EXCEPT !.state = state]

AfterLineEnd(c) == IF c = EOL THEN "START_RECORD" ELSE "EAT_CRNL"

(* parse_process_char: the reader state [state, fields, field, error] after
   character c; error is csv.Error, raised by parse_add_char at the field
   limit or by a character other than a line end after a carriage return *)
parse_process_char(ps, c) ==
    LET startField ==
            IF c \in LineEnds THEN [save_field(ps) EXCEPT !.state = AfterLineEnd(c)]
            ELSE IF c = "\"" THEN [ps EXCEPT !.state = "IN_QUOTED_FIELD"]
            ELSE IF c = "," THEN [save_field(ps) EXCEPT !.state = "START_FIELD"]
            ELSE add_char_then(ps, c, "IN_FIELD")
    IN CASE ps.state = "START_RECORD" ->
              IF c = EOL THEN ps
              ELSE IF c \in {"\n", "\r"} THEN [ps EXCEPT !.state = "EAT_CRNL"]
              ELSE startField
         [] ps.state = "START_FIELD" -> startField
         [] ps.state = "IN_FIELD" ->
              IF c \in LineEnds THEN [save_field(ps) EXCEPT !.state = AfterLineEnd(c)]
              ELSE IF c = "," THEN [save_field(ps) EXCEPT !.state = "START_FIELD"]
              ELSE add_char(ps, c)
         [] ps.state = "IN_QUOTED_FIELD" ->
              IF c = EOL THEN ps
              ELSE IF c = "\"" THEN [ps EXCEPT !.state = "QUOTE_IN_QUOTED_FIELD"]
              ELSE add_char(ps, c)
         [] ps.state = "QUOTE_IN_QUOTED_FIELD" ->
              IF c = "\"" THEN add_char_then(ps, c, "IN_QUOTED_FIELD")
              ELSE IF c = "," THEN [save_field(ps) EXCEPT !.state = "START_FIELD"]
              ELSE IF c \in LineEnds THEN [save_field(ps) EXCEPT !.state = AfterLineEnd(c)]
              ELSE add_char_then(ps, c, "IN_FIELD")
         [] ps.state = "EAT_CRNL" ->
              IF c \in {"\n", "\r"} THEN ps
              ELSE IF c = EOL THEN [ps EXCEPT !.state = "START_RECORD"]
              ELSE [ps EXCEPT !.error = TRUE]

(* the first position >= i that holds a character of stops (Len(s)+1 when
   there is none) *)
FirstOf(s, i, stops) ==
    LET at == {j \in i..Len(s) : s[j] \in stops}
    IN IF at = {} THEN Len(s) + 1 ELSE MinOf(at)

(* the characters of one line from position j, then the end-of-line mark.
   Inside a field, the characters up to the next one the state treats
   specially are each added to the field (parse_add_char); they are taken
   together. *)
RECURSIVE parse_line(_, _, _)
parse_line(ps, line, j) ==
    IF ps.error THEN ps
    ELSE IF j > Len(line) THEN parse_process_char(ps, EOL)
    ELSE IF ps.state = "IN_FIELD" /\ line[j] \notin {",", "\n", "\r"}
    THEN LET e == FirstOf(line, j, {",", "\n", "\r"})
         IN parse_line(add_run(ps, SubSeq(line, j, e - 1)), line, e)
    ELSE IF ps.state = "IN_QUOTED_FIELD" /\ line[j] # "\""
    THEN LET e == FirstOf(line, j, {"\""})
         IN parse_line(add_run(ps, SubSeq(line, j, e - 1)), line, e)
    ELSE parse_line(parse_process_char(ps, line[j]), line, j + 1)

(* parse_reset *)
ResetState == [state |-> "START_RECORD", fields |-> <<>>, field |-> <<>>, error |-> FALSE]

(* Reader.__next__ from line k: lines are consumed until the state is back at
   START_RECORD; at the end of the input a pending field closes the record.
   [kind, fields, next]: kind is "row", "stop" (StopIteration) or "error"
   (csv.Error). *)
RECURSIVE reader_next(_, _, _)

AfterLine(lines, k, after) ==
    IF after.error THEN [kind |-> "error", fields |-> <<>>, next |-> k]
    ELSE IF after.state = "START_RECORD"
    THEN [kind |-> "row", fields |-> after.fields, next |-> k + 1]
    ELSE reader_next(lines, k + 1, after)

reader_next(lines, k, ps) ==
    IF k > Len(lines)
    THEN IF Len(ps.field) # 0 \/ ps.state = "IN_QUOTED_FIELD"
         THEN [kind |-> "row", fields |-> save_field(ps).fields, next |-> k]
         ELSE [kind |-> "stop", fields |-> <<>>, next |-> k]
    ELSE AfterLine(lines, k, parse_line(ps, lines[k], 1))

(* DictReader.__next__ for one row against the field names: zip, then the
   surplus cells under the key None (restkey) or None (restval) for the
   missing ones *)
RECURSIVE zip_into(_, _, _, _)
zip_into(entries, fieldnames, row, j) ==
    IF j > Len(fieldnames) \/ j > Len(row) THEN entries
    ELSE zip_into(DictSet(entries, PyStr(fieldnames[j]), PyStr(row[j])),
                  fieldnames, row, j + 1)

RECURSIVE fill_restval(_, _, _)
fill_restval(entries, fieldnames, j) ==
    IF j > Len(fieldnames) THEN entries
    ELSE fill_restval(DictSet(entries, PyStr(fieldnames[j]), PyNone), fieldnames, j + 1)

(* mutant of RowDict: the surplus cells of a long row are dropped *)
RowDictDropSurplus(d, fieldnames, row) ==
    IF Len(fieldnames) > Len(row)
    THEN PyDict(fill_restval(d, fieldnames, Len(row) + 1))
    ELSE PyDict(d)

StrList(cells) == PyList([j \in 1..Len(cells) |-> PyStr(cells[j])])

RowDict(d, fieldnames, row) ==
    IF Len(fieldnames) < Len(row)
    THEN PyDict(DictSet(d, PyNone, StrList(SubSeq(row, Len(fieldnames) + 1, Len(row)))))
    ELSE IF Len(fieldnames) > Len(row)
    THEN PyDict(fill_restval(d, fieldnames, Len(row) + 1))
    ELSE PyDict(d)

row_dict(fieldnames, row) == RowDict(zip_into(<<>>, fieldnames, row, 1), fieldnames, row)

(* the rows DictReader yields from line k on: empty records are skipped *)
RECURSIVE dict_rows(_, _, _, _)

NextRow(lines, r, fieldnames, acc) ==
    IF r.kind = "error" THEN [error |-> TRUE, rows |-> <<>>]
    ELSE IF r.kind = "stop" THEN [error |-> FALSE, rows |-> acc]
    ELSE IF r.fields = <<>> THEN dict_rows(lines, r.next, fieldnames, acc)
    ELSE dict_rows(lines, r.next, fieldnames, Append(acc, row_dict(fieldnames, r.fields)))

dict_rows(lines, k, fieldnames, acc) ==
    NextRow(lines, reader_next(lines, k, ResetState), fieldnames, acc)

(* DictReader.fieldnames: the first record *)
WithHeader(lines, header) ==
    IF header.kind = "error" THEN [error |-> TRUE, rows |-> <<>>]
    ELSE IF header.kind = "stop" THEN [error |-> FALSE, rows |-> <<>>]
    ELSE dict_rows(lines, header.next, header.fields, <<>>)

ReadLines(lines) == WithHeader(lines, reader_next(lines, 1, ResetState))

(* list(csv.DictReader(io.StringIO(csv_str))) *)
dict_reader(csv_str) == ReadLines(readlines(csv_str, 1))

(* lines 134-142: the try around the reader catches every Exception *)
TryCsvRead(r) == IF r.error THEN Returns(PyNone) ELSE Returns(PyList(r.rows))

(* lines 132-145 *)
CsvOfMatch(match) ==
    IF match.matched
    THEN TryCsvRead(dict_reader(strip(match.group1)))
    ELSE Returns(PyNone)

(* DocumentAnalyzer.extract_csv_from_text *)
extract_csv_from_text(input_text) == CsvOfMatch(re_search(input_text))

----------------------------------------------------------------------------
(* PromptGenerator *)

(* PromptGenerator.__init__: the data type is stored, not checked *)
PromptGenerator(dt) == [data_type |-> dt]

(* mutant of generate_prompt: no check of the data type *)
generate_prompt_unchecked(self, chunk) ==
    IF self.data_type = "csv" THEN [raised |-> "", template |-> "CSV", text_chunk |-> chunk]
    ELSE [raised |-> "", template |-> "JSON", text_chunk |-> chunk]

(* PromptGenerator.generate_prompt: the f-string of the data type with the
   chunk interpolated, or ValueError for any other data type *)
generate_prompt(self, chunk) ==
    IF self.data_type = "json" THEN [raised |-> "", template |-> "JSON", text_chunk |-> chunk]
    ELSE IF self.data_type = "csv" THEN [raised |-> "", template |-> "CSV", text_chunk |-> chunk]
    ELSE [raised |-> "ValueError", template |-> "", text_chunk |-> chunk]

----------------------------------------------------------------------------
(* DocumentAnalyzer.extract_eval_data(documents, data_type, step_num) *)

(* bounds of the model *)
MaxDocs == 11

MaxStep == 3

(* the first index of range(8, len(documents), step_num) *)
START == 8

DataTypes == {"json", "csv", "xml"}

Steps == (-1)..MaxStep

(* the i-th document of the list (0-based i) is the text chunk i *)
Documents(n) == [k \in 1..n |-> k - 1]

Digit1Run(n) == [k \in 1..n |-> "1"]

(* the response contents the model may return in a batch run *)
Responses == <<
    <<"n", "o">>,
    Fence \o <<"[", "1", "]">> \o Fence,
    Fence \o <<"a", ",", "b", "\n", "1">> \o Fence,
    Fence \o <<"a", "\r", "b">> \o Fence,
    Fence \o Digit1Run(INT_MAX_STR_DIGITS + 1) \o Fence >>

Unset == [t |-> "unset", v |-> <<>>]

NoError == [type |-> "", at |-> ""]

VARIABLES
    documents,         \* argument: the document list
    data_type,         \* argument
    step_num,          \* argument
    pc,                \* position in extract_eval_data
    prompt_generator,  \* local (line 72)
    data_list,         \* local (line 71)
    nxt,               \* the next value of the range iterator
    i,                 \* loop variable
    text_chunk,        \* local (line 76)
    prompt,            \* local (line 78)
    input_text,        \* local (line 81)
    record,            \* the extractor result about to be appended
    result,            \* the value returned
    error,             \* the exception that escaped, with the call that raised it
    calls,             \* history: the model invocations started, in order
    built,             \* history: the indices a prompt was built for, in order
    inflight,          \* history: model calls started and not yet ended
    xin,               \* direct extractor call: the input text
    xcall,             \* direct extractor call: which extractor ran
    xout               \* direct extractor call: its outcome

batchVars == <<documents, data_type, step_num, pc, prompt_generator, data_list, nxt, i,
               text_chunk, prompt, input_text, record, result, error, calls, built,
               inflight>>

extractVars == <<xin, xcall, xout>>

vars == <<batchVars, extractVars>>

args == <<documents, data_type, step_num>>

BatchInit ==
    /\ \E n \in 0..MaxDocs : documents = Documents(n)
    /\ data_type \in DataTypes
    /\ step_num \in Steps
    /\ pc = "start"
    /\ prompt_generator = PromptGenerator("")
    /\ data_list = <<>>
    /\ nxt = 0
    /\ i = 0
    /\ text_chunk = 0
    /\ prompt = [raised |-> "", template |-> "", text_chunk |-> 0]
    /\ input_text = <<>>
    /\ record = Unset
    /\ result = Unset
    /\ error = NoError
    /\ calls = <<>>
    /\ built = <<>>
    /\ inflight = 0

ExtractIdle ==
    /\ xin = <<>>
    /\ xcall = "none"
    /\ xout = Returns(Unset)

Init == BatchInit /\ ExtractIdle

Raise(type, at) ==
    /\ pc' = "raised"
    /\ error' = [type |-> type, at |-> at]

(* lines 71-72 *)
Begin ==
    /\ pc = "start"
    /\ data_list' = <<>>
    /\ prompt_generator' = PromptGenerator(data_type)
    /\ pc' = "range"
    /\ UNCHANGED <<args, nxt, i, text_chunk, prompt, input_text, record, result, error,
                   calls, built, inflight, extractVars>>

(* line 74, range(8, len(documents), step_num): a zero step is a ValueError *)
MakeRange ==
    /\ pc = "range"
    /\ IF step_num = 0
       THEN Raise("ValueError", "range") /\ nxt' = nxt
       ELSE pc' = "loop" /\ nxt' = START /\ error' = error
    /\ UNCHANGED <<args, prompt_generator, data_list, i, text_chunk, prompt, input_text,
                   record, result, calls, built, inflight, extractVars>>

(* mutant of HasNext: the stop bound is included *)
HasNextInclusive ==
    IF step_num > 0 THEN nxt <= Len(documents) ELSE nxt >= Len(documents)

(* the range iterator has a next value *)
HasNext ==
    IF step_num > 0 THEN nxt < Len(documents) ELSE nxt > Len(documents)

(* line 74, the for statement takes the next index; line 91 when the range is
   exhausted *)
LoopNext ==
    /\ pc = "loop"
    /\ IF HasNext
       THEN /\ i' = nxt
            /\ nxt' = nxt + step_num
            /\ pc' = "chunk"
            /\ result' = result
       ELSE /\ pc' = "returned"
            /\ result' = PyList(data_list)
            /\ UNCHANGED <<i, nxt>>
    /\ UNCHANGED <<args, prompt_generator, data_list, text_chunk, prompt, input_text,
                   record, error, calls, built, inflight, extractVars>>

(* line 76, documents[i] *)
GetChunk ==
    /\ pc = "chunk"
    /\ IF i >= 0 /\ i < Len(documents)
       THEN /\ text_chunk' = documents[i + 1]
            /\ pc' = "prompt"
            /\ error' = error
       ELSE Raise("IndexError", "documents[i]") /\ text_chunk' = text_chunk
    /\ UNCHANGED <<args, prompt_generator, data_list, nxt, i, prompt, input_text, record,
                   result, calls, built, inflight, extractVars>>

(* line 78 *)
BuildPrompt ==
    /\ pc = "prompt"
    /\ LET p == generate_prompt(prompt_generator, text_chunk)
       IN IF p.raised # ""
          THEN Raise(p.raised, "generate_prompt") /\ UNCHANGED <<prompt, built>>
          ELSE /\ prompt' = p
               /\ built' = Append(built, i)
               /\ pc' = "invoke"
               /\ error' = error
    /\ UNCHANGED <<args, prompt_generator, data_list, nxt, i, text_chunk, input_text,
                   record, result, calls, inflight, extractVars>>

(* line 81, self.llm.invoke(prompt) is called *)
Invoke ==
    /\ pc = "invoke"
    /\ calls' = Append(calls, [index |-> i, prompt |-> prompt, status |-> "pending", reply |-> 0])
    /\ inflight' = inflight + 1
    /\ pc' = "waiting"
    /\ UNCHANGED <<args, prompt_generator, data_list, nxt, i, text_chunk, prompt,
                   input_text, record, result, error, built, extractVars>>

(* line 81, the call returns a message; its content is input_text *)
InvokeReturn ==
    /\ pc = "waiting"
    /\ \E r \in 1..Len(Responses) :
          /\ input_text' = Responses[r]
          /\ calls' = [calls EXCEPT ![Len(calls)].status = "returned",
                                    ![Len(calls)].reply = r]
    /\ inflight' = inflight - 1
    /\ pc' = "dispatch"
    /\ UNCHANGED <<args, prompt_generator, data_list, nxt, i, text_chunk, prompt, record,
                   result, error, built, extractVars>>

(* mutant of InvokeFail: the failure is caught, None is recorded for the
   document and the batch goes on *)
InvokeFailSkip ==
    /\ pc = "waiting"
    /\ calls' = [calls EXCEPT ![Len(calls)].status = "failed"]
    /\ inflight' = inflight - 1
    /\ record' = PyNone
    /\ pc' = "append"
    /\ UNCHANGED <<args, prompt_generator, data_list, nxt, i, text_chunk, prompt,
                   input_text, result, error, built, extractVars>>

(* line 81, the call raises (timeout, transport, authentication): nothing
   catches it *)
InvokeFail ==
    /\ pc = "waiting"
    /\ calls' = [calls EXCEPT ![Len(calls)].status = "failed"]
    /\ inflight' = inflight - 1
    /\ Raise("InvocationFailed", "llm.invoke")
    /\ UNCHANGED <<args, prompt_generator, data_list, nxt, i, text_chunk, prompt,
                   input_text, record, result, built, extractVars>>

(* lines 84 and 86: the extractor of a supported data type *)
Extractor(dt, text) ==
    IF dt = "json" THEN extract_json_from_text(text) ELSE extract_csv_from_text(text)

Extracted(out) ==
    IF out.raised # ""
    THEN /\ Raise(out.raised, "json.loads")
         /\ UNCHANGED <<record, result>>
    ELSE /\ record' = out.val
         /\ pc' = "append"
         /\ UNCHANGED <<result, error>>

(* lines 83-89, the format switch: the extractor of the data type runs (the
   argument of append), or the function returns None *)
Extract ==
    /\ pc = "dispatch"
    /\ IF data_type \in {"json", "csv"}
       THEN Extracted(Extractor(data_type, input_text))
       ELSE /\ pc' = "returned"
            /\ result' = PyNone
            /\ UNCHANGED <<record, error>>
    /\ UNCHANGED <<args, prompt_generator, data_list, nxt, i, text_chunk, prompt,
                   input_text, calls, built, inflight, extractVars>>

(* mutant of AppendRecord: the record goes to the front of the list *)
PrependRecord ==
    /\ pc = "append"
    /\ data_list' = <<record>> \o data_list
    /\ pc' = "loop"
    /\ UNCHANGED <<args, prompt_generator, nxt, i, text_chunk, prompt, input_text, record,
                   result, error, calls, built, inflight, extractVars>>

(* lines 84 and 86, data_list.append *)
AppendRecord ==
    /\ pc = "append"
    /\ data_list' = Append(data_list, record)
    /\ pc' = "loop"
    /\ UNCHANGED <<args, prompt_generator, nxt, i, text_chunk, prompt, input_text, record,
                   result, error, calls, built, inflight, extractVars>>

Next ==
    \/ Begin
    \/ MakeRange
    \/ LoopNext
    \/ GetChunk
    \/ BuildPrompt
    \/ Invoke
    \/ InvokeReturn
    \/ InvokeFail
    \/ Extract
    \/ AppendRecord

Spec == Init /\ [][Next]_vars

----------------------------------------------------------------------------
(* Direct calls of the two extractors (public methods of DocumentAnalyzer) on
   response texts built from short token sequences. *)

MaxFenceTokens == 6

MaxJsonTokens == 5

MaxCsvTokens == 6

RECURSIVE Flatten(_)
Flatten(pieces) == IF pieces = <<>> THEN <<>> ELSE Head(pieces) \o Flatten(Tail(pieces))

(* the texts made of at most maxlen tokens *)
TokenTexts(tokens, maxlen) ==
    {Flatten(ts) : ts \in UNION {[1..k -> tokens] : k \in 0..maxlen}}

FenceTokens == {Fence, <<BT>>, <<"\n">>, <<"[", "]">>, <<"x">>}

JsonTokens == {Fence, <<" ">>, <<"[">>, <<"]">>, <<"1">>, <<"n", "u", "l", "l">>,
               <<"{", "\"", "a", "\"", ":">>, <<"}">>}

CsvTokens == {<<"a">>, <<",", "b">>, <<",">>, <<"\n">>, <<" ">>}

(* no batch run: the variables of extract_eval_data stay as they are *)
BatchIdle ==
    /\ documents = <<>>
    /\ data_type = "json"
    /\ step_num = 1
    /\ pc = "idle"
    /\ prompt_generator = PromptGenerator("")
    /\ data_list = <<>>
    /\ nxt = 0
    /\ i = 0
    /\ text_chunk = 0
    /\ prompt = [raised |-> "", template |-> "", text_chunk |-> 0]
    /\ input_text = <<>>
    /\ record = Unset
    /\ result = Unset
    /\ error = NoError
    /\ calls = <<>>
    /\ built = <<>>
    /\ inflight = 0

ExtractInit(texts) ==
    /\ BatchIdle
    /\ xin \in texts
    /\ xcall = "none"
    /\ xout = Returns(Unset)

(* analyzer.extract_json_from_text(xin) *)
CallExtractJson ==
    /\ pc = "idle"
    /\ xcall = "none"
    /\ xcall' = "json"
    /\ xout' = extract_json_from_text(xin)
    /\ UNCHANGED <<batchVars, xin>>

(* analyzer.extract_csv_from_text(xin) *)
CallExtractCsv ==
    /\ pc = "idle"
    /\ xcall = "none"
    /\ xcall' = "csv"
    /\ xout' = extract_csv_from_text(xin)
    /\ UNCHANGED <<batchVars, xin>>

FenceInit == ExtractInit(TokenTexts(FenceTokens, MaxFenceTokens))

FenceNext == CallExtractJson \/ CallExtractCsv

SpecFence == FenceInit /\ [][FenceNext]_vars

JsonInit == ExtractInit(TokenTexts(JsonTokens, MaxJsonTokens))

JsonNext == CallExtractJson

SpecJson == JsonInit /\ [][JsonNext]_vars

(* contents with a cell at the field limit and one character beyond it, in
   a data line and in the header line *)
LongCsvBodies == {
    <<"a", "\n">> \o Digit1Run(FIELD_SIZE_LIMIT),
    <<"a", "\n">> \o Digit1Run(FIELD_SIZE_LIMIT + 1),
    <<"a", ",">> \o Digit1Run(FIELD_SIZE_LIMIT + 1) \o <<"\n", "a">> }

CsvBodies == TokenTexts(CsvTokens, MaxCsvTokens) \cup LongCsvBodies

CsvInit == ExtractInit({Fence \o body \o Fence : body \in CsvBodies})

CsvNext == CallExtractCsv

SpecCsv == CsvInit /\ [][CsvNext]_vars

----------------------------------------------------------------------------
(* Properties of a batch run (specification Spec) *)

Supported == data_type \in {"json", "csv"}

NDocs == Len(documents)

(* the indices START, START + step_num, ... below the number of documents,
   for a positive step *)
SelectedIndices == {j \in START..(NDocs - 1) : (j - START) % step_num = 0}

SelCount == Cardinality(SelectedIndices)

NthSelected(k) == START + (k - 1) * step_num

NoCallFailed == \A k \in 1..Len(calls) : calls[k].status # "failed"

(* what each extractor makes of each response of Responses *)
JsonReplies == [r \in 1..Len(Responses) |-> extract_json_from_text(Responses[r])]

CsvReplies == [r \in 1..Len(Responses) |-> extract_csv_from_text(Responses[r])]

ReplyOutcome(r) == IF data_type = "json" THEN JsonReplies[r] ELSE CsvReplies[r]

(* the fenced content of response r does not decode under data type dt:
   there is no fenced block, or the decoder refuses the content *)
Unparsable == [dt \in {"json", "csv"} |->
                 [r \in 1..Len(Responses) |->
                    \/ ~re_search(Responses[r]).matched
                    \/ /\ dt = "json"
                       /\ json_loads(strip(re_search(Responses[r]).group1)).st # "ok"
                    \/ /\ dt = "csv"
                       /\ dict_reader(strip(re_search(Responses[r]).group1)).error]]

(* C1: for an unsupported format, whatever the documents and the stride, the
   run never returns a result list and never calls the model. *)
C1_UnsupportedNeverReturns ==
    ~Supported => (pc # "returned" /\ Len(calls) = 0)

(* C2: for a supported format, a positive stride and invocations that all
   succeed, the run does not abort, and when it has returned the model was
   invoked exactly once per selected index, in increasing order, each time
   with the prompt of that document, and the k-th slot of the list returned
   is the extraction of the k-th response; the list has one slot per selected
   index. *)
C2_SelectedInOrder ==
    (Supported /\ step_num > 0 /\ NoCallFailed) =>
        /\ pc # "raised"
        /\ pc = "returned" =>
              /\ result.t = "list"
              /\ Len(calls) = SelCount
              /\ Len(result.v) = SelCount
              /\ \A k \in 1..Len(calls) :
                    /\ calls[k].index = NthSelected(k)
                    /\ calls[k].prompt.text_chunk = documents[NthSelected(k) + 1]
                    /\ calls[k].status = "returned"
                    /\ result.v[k] = ReplyOutcome(calls[k].reply).val

(* C2, the part that holds: the same for the runs that return. *)
C2_WhenReturned ==
    (Supported /\ step_num > 0 /\ pc = "returned") =>
        /\ result.t = "list"
        /\ Len(calls) = SelCount
        /\ Len(result.v) = SelCount
        /\ \A k \in 1..Len(calls) :
              /\ calls[k].index = NthSelected(k)
              /\ calls[k].prompt.text_chunk = documents[NthSelected(k) + 1]
              /\ calls[k].status = "returned"
              /\ result.v[k] = ReplyOutcome(calls[k].reply).val

(* C3 as stated: with at most START documents and a supported format the run
   does not fail, builds no prompt, calls no model and returns the empty
   list. *)
C3_EmptyWhenShort ==
    (Supported /\ NDocs <= START) =>
        /\ pc # "raised"
        /\ calls = <<>>
        /\ built = <<>>
        /\ pc = "returned" => result = PyList(<<>>)

(* C3 amended: the same for a positive stride. *)
C3_EmptyWhenShortPositiveStep ==
    (Supported /\ step_num > 0 /\ NDocs <= START) =>
        /\ pc \in {"start", "range", "loop", "returned"}
        /\ calls = <<>>
        /\ built = <<>>
        /\ pc = "returned" => result = PyList(<<>>)

C3_Witness ==
    /\ Supported
    /\ step_num > 0
    /\ NDocs = START
    /\ pc = "returned"
    /\ result = PyList(<<>>)

(* C4: a response that has no fenced block or whose content does not decode
   never makes the run abort: no exception leaves the extractor, the slot of
   such a response is None, and a run that returns has one slot per selected
   index. *)
C4_ParseFailuresNonFatal ==
    (Supported /\ step_num > 0) =>
        /\ ~(pc = "raised" /\ error.at = "json.loads")
        /\ \A k \in 1..Len(data_list) :
              Unparsable[data_type][calls[k].reply] => data_list[k] = PyNone
        /\ pc = "returned" => Len(result.v) = SelCount

(* C5: once a model invocation has failed the run has ended with that
   failure: the failed call is the last one, no prompt was built after it, no
   slot was recorded for its document and nothing was returned. *)
C5_InvokeFailureHalts ==
    (\E k \in 1..Len(calls) : calls[k].status = "failed") =>
        /\ pc = "raised"
        /\ error = [type |-> "InvocationFailed", at |-> "llm.invoke"]
        /\ \A k \in 1..(Len(calls) - 1) : calls[k].status = "returned"
        /\ Len(built) = Len(calls)
        /\ Len(data_list) = Len(calls) - 1
        /\ result = Unset
        /\ ~ENABLED Next

(* a failure on the second selected document, with a third one left *)
C5_Witness ==
    /\ pc = "raised"
    /\ Len(calls) = 2
    /\ calls[2].status = "failed"
    /\ Len(data_list) = 1
    /\ nxt < NDocs

(* C6, in every state: at most one call is in flight, and only while the run
   waits for the model; the prompts built, the calls started and the slots
   appended advance one document at a time, in that order. *)
C6_StagesInOrder ==
    /\ inflight \in {0, 1}
    /\ inflight = 1 <=> pc = "waiting"
    /\ \A k \in 1..Len(calls) : calls[k].index = built[k]
    /\ \A k \in 1..(Len(calls) - 1) : calls[k].status = "returned"
    /\ pc \in {"loop", "chunk", "prompt", "returned"} =>
          Len(built) = Len(data_list) /\ Len(calls) = Len(data_list)
    /\ pc = "invoke" =>
          Len(built) = Len(data_list) + 1 /\ Len(calls) = Len(data_list)
    /\ pc \in {"waiting", "dispatch", "append"} =>
          Len(built) = Len(data_list) + 1 /\ Len(calls) = Len(data_list) + 1
    /\ pc = "waiting" => calls[Len(calls)].status = "pending"
    /\ pc \in {"dispatch", "append"} => calls[Len(calls)].status = "returned"

(* C6, in every step: the list changes only by one slot appended at its end,
   and a prompt is built only when every earlier document has its slot. *)
C6_StepInOrder ==
    /\ \/ data_list' = data_list
       \/ /\ Len(data_list') = Len(data_list) + 1
          /\ SubSeq(data_list', 1, Len(data_list)) = data_list
          /\ data_list'[Len(data_list')] = record
    /\ built' # built =>
          /\ Len(data_list) = Len(built)
          /\ inflight = 0
          /\ \A k \in 1..Len(calls) : calls[k].status = "returned"

(* C6: one document at a time, each through prompt, invocation, extraction
   and append before the next prompt is built; the list only grows at its
   end. *)
C6_Sequential == []C6_StagesInOrder /\ [][C6_StepInOrder]_vars

(* the prompt of a second document is built after a first, non-None slot *)
C6_Witness ==
    /\ pc = "invoke"
    /\ Len(built) = 2
    /\ Len(data_list) = 1
    /\ data_list[1] # PyNone

(* C10: extract_eval_data never returns None: a run that returns returns a
   list; for an unsupported data type the run never reaches the model call
   or the format switch; a run that has neither returned nor raised has a
   next step (at the format switch that step is Extract, whose only guard is
   the position). *)
C10_NeverReturnsNone ==
    /\ pc = "returned" => result.t = "list"
    /\ ~Supported => (pc \notin {"invoke", "waiting", "dispatch", "append"} /\ calls = <<>>)
    /\ pc \notin {"returned", "raised", "dispatch"} => ENABLED Next

(* an unsupported data type with a selected document: generate_prompt raises *)
C10_Witness ==
    /\ ~Supported
    /\ pc = "raised"
    /\ error = [type |-> "ValueError", at |-> "generate_prompt"]
    /\ built = <<>>

----------------------------------------------------------------------------
(* Properties of the extractors (specifications SpecFence, SpecJson, SpecCsv) *)

(* the positions of the triple-backtick markers of a text *)
Markers(text) == {p \in 1..(Len(text) - 2) : StartsAt(text, p, Fence)}

FirstMarker(text) == MinOf(Markers(text))

(* the markers that start after the first marker has ended *)
MarkersAfterFirst(text) == {q \in Markers(text) : q >= FirstMarker(text) + 3}

HasBlock(text) == Markers(text) # {} /\ MarkersAfterFirst(text) # {}

(* the text between the first marker and the next marker after it *)
Block(text) ==
    SubSeq(text, FirstMarker(text) + 3, MinOf(MarkersAfterFirst(text)) - 1)

(* the text after the marker that closes the first block *)
AfterBlock(text) == SubSeq(text, MinOf(MarkersAfterFirst(text)) + 3, Len(text))

RECURSIVE TrimLeft(_)
TrimLeft(s) == IF s # <<>> /\ Head(s) \in StripChars THEN TrimLeft(Tail(s)) ELSE s

RECURSIVE TrimRight(_)
TrimRight(s) ==
    IF s # <<>> /\ s[Len(s)] \in StripChars THEN TrimRight(SubSeq(s, 1, Len(s) - 1)) ELSE s

Trimmed(s) == TrimRight(TrimLeft(s))

(* C8: each extractor decodes the trimmed text between the first marker and
   the next marker after it, and nothing else of the response; without two
   such markers it returns None. *)
C8_FirstBlockDecides ==
    /\ xcall = "json" =>
          xout = IF HasBlock(xin)
                 THEN TryJsonLoads(json_loads(Trimmed(Block(xin))))
                 ELSE Returns(PyNone)
    /\ xcall = "csv" =>
          xout = IF HasBlock(xin)
                 THEN TryCsvRead(dict_reader(Trimmed(Block(xin))))
                 ELSE Returns(PyNone)

(* a malformed first block followed by a block that decodes to a list on its
   own: the JSON extractor returns None *)
C8_Witness ==
    /\ xcall = "json"
    /\ HasBlock(xin)
    /\ xout = Returns(PyNone)
    /\ extract_json_from_text(AfterBlock(xin)).val.t = "list"

(* C7: the JSON extractor returns None only when there is no fenced block or
   the trimmed content of the block is not valid JSON; valid JSON content
   gives a value that is not None. *)
C7_NoneMeansFailure ==
    xcall = "json" =>
        /\ xout = Returns(PyNone) =>
              (~HasBlock(xin) \/ json_loads(Trimmed(Block(xin))).st # "ok")
        /\ (HasBlock(xin) /\ json_loads(Trimmed(Block(xin))).st = "ok") =>
              (xout.raised = "" /\ xout.val.t # "None")

(* str.split(sep) for a one-character separator *)
RECURSIVE SplitOn(_, _)
SplitOn(s, sep) ==
    IF \A j \in 1..Len(s) : s[j] # sep THEN <<s>>
    ELSE LET at == MinOf({j \in 1..Len(s) : s[j] = sep})
         IN <<SubSeq(s, 1, at - 1)>> \o SplitOn(SubSeq(s, at + 1, Len(s)), sep)

(* the lines of a block content after its first line that are not empty *)
RECURSIVE NonEmpty(_)
NonEmpty(lines) ==
    IF lines = <<>> THEN <<>>
    ELSE IF Head(lines) = <<>> THEN NonEmpty(Tail(lines))
    ELSE <<Head(lines)>> \o NonEmpty(Tail(lines))

HeaderOf(content) == SplitOn(Head(SplitOn(content, "\n")), ",")

DataLines(content) == NonEmpty(Tail(SplitOn(content, "\n")))

(* the mapping of one data line: header j to cell j as far as both go, then
   the key None to the list of the surplus cells, or every header without a
   cell to None *)
RECURSIVE PairUp(_, _, _, _)
PairUp(entries, header, cells, j) ==
    IF j > Len(header) /\ j > Len(cells) THEN entries
    ELSE IF j > Len(header)
    THEN DictSet(entries, PyNone, StrList(SubSeq(cells, j, Len(cells))))
    ELSE IF j > Len(cells)
    THEN PairUp(DictSet(entries, PyStr(header[j]), PyNone), header, cells, j + 1)
    ELSE PairUp(DictSet(entries, PyStr(header[j]), PyStr(cells[j])), header, cells, j + 1)

ExpectedRow(header, line) == PyDict(PairUp(<<>>, header, SplitOn(line, ","), 1))

ExpectedRows(content) ==
    [k \in 1..Len(DataLines(content)) |-> ExpectedRow(HeaderOf(content), DataLines(content)[k])]

(* every key of the mapping is a header string and every value a string *)
PlainRow(row, header) ==
    /\ row.t = "dict"
    /\ \A e \in 1..Len(row.v) :
          /\ row.v[e].key.t = "str"
          /\ \E h \in 1..Len(header) : row.v[e].key.v = header[h]
          /\ row.v[e].val.t = "str"

(* C9 as stated: for every fenced block the CSV extractor returns a list
   with one mapping per non-empty line after the first, each mapping header
   strings to cell strings. *)
C9_RowsOfStrings ==
    xcall = "csv" =>
        /\ xout.raised = ""
        /\ xout.val.t = "list"
        /\ Len(xout.val.v) = Len(DataLines(Trimmed(Block(xin))))
        /\ \A k \in 1..Len(xout.val.v) :
              PlainRow(xout.val.v[k], HeaderOf(Trimmed(Block(xin))))

PlainContent(content) == \A j \in 1..Len(content) : content[j] \notin {"\"", "\r"}

Range(f) == {f[x] : x \in DOMAIN f}

(* the comma-separated cells of every line of the content *)
CellsOf(content) ==
    UNION {Range(SplitOn(line, ",")) : line \in Range(SplitOn(content, "\n"))}

(* no cell is longer than the reader accepts *)
WithinFieldLimit(content) == \A cell \in CellsOf(content) : Len(cell) <= FIELD_SIZE_LIMIT

(* C9 amended: for a fenced block whose content holds no double quote and no
   carriage return: when no cell is longer than the field limit, the CSV
   extractor returns the list of one mapping per non-empty line after the
   first, in line order; a line with as many cells as headers maps each
   header to its cell; a line with more cells maps in addition the key None
   to the list of the surplus cells; a line with fewer cells maps each header
   without a cell to None; a block holding only the header line gives the
   empty list, not None.  When some cell is longer than the field limit the
   extractor returns None. *)
C9_RowsByHeader ==
    (xcall = "csv" /\ PlainContent(Trimmed(Block(xin)))) =>
        xout = IF WithinFieldLimit(Trimmed(Block(xin)))
               THEN Returns(PyList(ExpectedRows(Trimmed(Block(xin)))))
               ELSE Returns(PyNone)

(* a data line with more cells than the header has columns *)
C9_Witness ==
    /\ xcall = "csv"
    /\ PlainContent(Trimmed(Block(xin)))
    /\ xout.val.t = "list"
    /\ \E k \in 1..Len(xout.val.v) :
          \E e \in 1..Len(xout.val.v[k].v) : xout.val.v[k].v[e].key = PyNone

====
